---- MODULE Spec2Model ----
(***************************************************************************)
(* Model of the legal-doc-analyzer pipeline:                               *)
(*   src/ingest_sec.py       live ingestion (ingest_sec)                   *)
(*   src/ingest_stanford.py  static ingestion (ingest_stanford)            *)
(*   src/app.py              query handling (search_contracts,             *)
(*                           query_huggingface)                            *)
(* A text is modelled by its length and by whether the truncation marker   *)
(* was appended; a chunk by its provenance (collection, document, ordinal).*)
(* Spec is the ingestion processes sharing the Chroma directory; SpecApp   *)
(* is the Dash callback.                                                   *)
(***************************************************************************)
EXTENDS Integers, Sequences, FiniteSets

VARIABLES
    \* ---- durable and external state (ingestion) ----
    disk,          \* persisted collections of ./data/chroma_db, by collection name
    web,           \* normalized body length served for each filing id
    runs,          \* ingestion runs started so far
    \* ---- the running ingestion process ----
    pc,            \* position of the running script
    mem,           \* the Chroma client's collection, before persist()
    filings,       \* ingest_sec: the list returned by fetch_sec_filings
    i,             \* ingest_sec: loop index (enumerate(filings, 1))
    text,          \* ingest_sec: text returned by download_contract_text
    metadata,      \* ingest_sec: whether metadata is not None
    chunks,        \* chunks of the current document(s)
    contracts_added,
    chunks_added,
    ingested,      \* ingest_sec: filing ids whose iteration added and persisted chunks
    all_files,     \* ingest_stanford: files found by glob
    documents,     \* ingest_stanford: Documents built by load_stanford_contracts
    abortCause,    \* why the process died without reaching its summary
    prevCall,      \* last outbound call of this run to the live source
    sleptSince,    \* time.sleep(0.5) ran since prevCall
    gap,           \* the latest pair of consecutive outbound calls
    \* ---- the Dash application process ----
    HF_TOKEN,
    apc,           \* position inside search_contracts
    n_clicks,
    query,
    sources,
    context_parts,
    results,
    prompt_context, \* the context text inside full_prompt, as kept per segment
    answer,        \* value returned by query_huggingface
    output,        \* what search_contracts returns
    calls,         \* requests.post calls issued while handling the current callback
    response       \* the generation endpoint's reply to the current request

ingestVars == <<disk, web, runs, pc, mem, filings, i, text, metadata, chunks,
                contracts_added, chunks_added, ingested, all_files, documents,
                abortCause, prevCall, sleptSince, gap>>
appVars == <<HF_TOKEN, apc, n_clicks, query, sources, context_parts, results,
             prompt_context, answer, output, calls, response>>
vars == <<ingestVars, appVars>>

----------------------------------------------------------------------------
(* Bounds of the model *)

MaxFilings == 2      \* filings in one fetch_sec_filings reply
MaxFiles == 2        \* files in the MCC folder
MaxRuns == 2         \* ingestion runs in one behaviour
MaxClicks == 2       \* clicks on the search button

(* Program constants *)

MIN_CHARS == 100         \* len(text) < 100
MAX_CHARS == 50000       \* len(text) > 50000, text[:50000]
MARKER_LEN == 15         \* len("... [truncated]")
CHUNK_SIZE == 1000
CHUNK_OVERLAP == 200
CONTEXT_LIMIT == 2000    \* context[:2000]
STANFORD_CONTEXT_LEN == 454   \* len(stanford_context)
SEC_CONTEXT_LEN == 348        \* len(sec_context)
SEPARATOR_LEN == 2            \* len("\n\n")

SEC_COLLECTION == "sec_live"
STANFORD_COLLECTION == "stanford_mcc"
Collections == {SEC_COLLECTION, STANFORD_COLLECTION}

FilingIds == {"F1", "F2"}
FileNames == {"a.htm", "b.txt"}
BodyLens == {50, 120, 50001}
NoText == [chars |-> 0, marker |-> FALSE]

----------------------------------------------------------------------------
(* Pure helpers *)

TextLen(t) == t.chars + (IF t.marker THEN MARKER_LEN ELSE 0)

\* ' '.join(text.split()) then the cap with the marker (download_contract_text)
SecNormalize(n) ==
    IF n > MAX_CHARS THEN [chars |-> MAX_CHARS, marker |-> TRUE]
                     ELSE [chars |-> n, marker |-> FALSE]

\* page_content=text[:50000] (load_stanford_contracts)
StanfordContent(n) ==
    [chars |-> IF n > MAX_CHARS THEN MAX_CHARS ELSE n, marker |-> FALSE]

\* a bug this model is compared with: the splitter built with chunk_size=100,
\* chunk_overlap=20
NumChunksOfHundred(n) ==
    IF n = 0 THEN 0
    ELSE IF n <= 100 THEN 1
    ELSE 1 + ((n - 100) + 80 - 1) \div 80

\* RecursiveCharacterTextSplitter(chunk_size=1000, chunk_overlap=200): number of
\* chunks of a text of n characters
NumChunks(n) ==
    IF n = 0 THEN 0
    ELSE IF n <= CHUNK_SIZE THEN 1
    ELSE 1 + ((n - CHUNK_SIZE) + (CHUNK_SIZE - CHUNK_OVERLAP) - 1)
                 \div (CHUNK_SIZE - CHUNK_OVERLAP)

\* text_splitter.split_documents: every chunk carries its document's metadata
SplitDocument(t, md) ==
    [k \in 1..NumChunks(TextLen(t)) |-> [metadata |-> md, idx |-> k]]

RECURSIVE SplitDocuments(_)
SplitDocuments(docs) ==
    IF docs = <<>> THEN <<>>
    ELSE SplitDocument(Head(docs).page_content, Head(docs).metadata)
         \o SplitDocuments(Tail(docs))

\* sequences over S of length at most n with no element twice
RECURSIVE DistinctSeqs(_, _)
DistinctSeqs(S, n) ==
    IF n = 0 THEN {<<>>}
    ELSE LET shorter == DistinctSeqs(S, n - 1)
         IN  shorter \cup
             UNION {{Append(s, x) : x \in S \ {s[k] : k \in 1..Len(s)}} :
                    s \in {t \in shorter : Len(t) = n - 1}}

\* the filing records fetch_sec_filings may return: "ok" has an EX-10 exhibit
\* URL, "nourl" has none, "malformed" holds a null where a string is expected
\* (filedAt: null)
RecordKinds == {"ok", "nourl", "malformed"}
FilingLists ==
    UNION {{[k \in 1..Len(ids) |-> [id |-> ids[k], kind |-> kinds[k]]] :
            kinds \in [1..Len(ids) -> RecordKinds]} :
           ids \in DistinctSeqs(FilingIds, MaxFilings)}

\* the files glob may find: text is the length extract_text_from_html returns
\* ("" when the file cannot be read)
FileLens == {0, 50, 120, 50001}
FileLists ==
    UNION {{[k \in 1..Len(names) |-> [path |-> names[k], chars |-> lens[k]]] :
            lens \in [1..Len(names) -> FileLens]} :
           names \in DistinctSeqs(FileNames, MaxFiles)}

NoGap == [from |-> "none", to |-> "none", slept |-> FALSE]

\* an outbound call to the live source is issued now
NetCall(kind) ==
    /\ prevCall' = kind
    /\ sleptSince' = FALSE
    /\ gap' = [from |-> prevCall, to |-> kind, slept |-> sleptSince]

NoNetCall == UNCHANGED <<prevCall, sleptSince, gap>>

Running == pc \notin {"idle", "done", "aborted"}

----------------------------------------------------------------------------
(* Python values of the application *)

PyNone == "<None>"
Tokens == {PyNone, "", "hf_secret"}
Queries == {PyNone, "", "What is the notice period?"}
SourceValues == {"stanford", "sec"}

\* "not x" for a string or None
Falsy(x) == x \in {PyNone, ""}

NoAnswer == [kind |-> "none", code |-> 0, detail |-> ""]
NoResponse == [kind |-> "none", status |-> 0, body |-> ""]

(* The application's variables at rest *)

AppIdle ==
    /\ apc = "idle"
    /\ n_clicks = 0
    /\ query = ""
    /\ sources = {}
    /\ context_parts = <<>>
    /\ results = <<>>
    /\ prompt_context = <<>>
    /\ answer = NoAnswer
    /\ output = "none"
    /\ calls = 0
    /\ response = NoResponse

IngestLocalsReset ==
    /\ mem' = <<>>
    /\ filings' = <<>>
    /\ i' = 0
    /\ text' = NoText
    /\ metadata' = FALSE
    /\ chunks' = <<>>
    /\ contracts_added' = 0
    /\ chunks_added' = 0
    /\ ingested' = {}
    /\ all_files' = <<>>
    /\ documents' = <<>>
    /\ abortCause' = "none"
    /\ prevCall' = "none"
    /\ sleptSince' = FALSE
    /\ gap' = NoGap

IngestAtStart ==
    /\ disk = [c \in Collections |-> <<>>]
    /\ runs = 0
    /\ pc = "idle"
    /\ mem = <<>>
    /\ filings = <<>>
    /\ i = 0
    /\ text = NoText
    /\ metadata = FALSE
    /\ chunks = <<>>
    /\ contracts_added = 0
    /\ chunks_added = 0
    /\ ingested = {}
    /\ all_files = <<>>
    /\ documents = <<>>
    /\ abortCause = "none"
    /\ prevCall = "none"
    /\ sleptSince = FALSE
    /\ gap = NoGap

\* the ingestion scripts, the application not started
Init ==
    /\ IngestAtStart
    /\ web \in [FilingIds -> BodyLens]
    /\ HF_TOKEN = PyNone
    /\ AppIdle

\* the application process: HF_TOKEN = os.environ.get("HF_TOKEN") at import
AppInit ==
    /\ IngestAtStart
    /\ web = [f \in FilingIds |-> 120]
    /\ HF_TOKEN \in Tokens
    /\ AppIdle

----------------------------------------------------------------------------
(* ingest_sec *)

\* python ingest_sec.py
StartSec ==
    /\ pc = "idle"
    /\ runs < MaxRuns
    /\ runs' = runs + 1
    /\ pc' = "sec_fetch"
    /\ UNCHANGED <<disk, web, mem, filings, i, text, metadata, chunks,
                   contracts_added, chunks_added, ingested, all_files, documents,
                   abortCause, prevCall, sleptSince, gap>>
    /\ UNCHANGED appVars

\* filings = fetch_sec_filings(); "if not filings: return"; then the embedding
\* model, the splitter and the Chroma client of collection sec_live are set up
SecFetchFilings ==
    /\ pc = "sec_fetch"
    /\ \E fs \in FilingLists :
          /\ filings' = fs
          /\ IF fs = <<>>
                THEN /\ pc' = "done"
                     /\ UNCHANGED <<mem, i>>
                ELSE /\ pc' = "sec_download"
                     /\ mem' = disk[SEC_COLLECTION]
                     /\ i' = 1
    /\ NetCall("list")
    /\ contracts_added' = 0
    /\ chunks_added' = 0
    /\ UNCHANGED <<disk, web, runs, text, metadata, chunks, ingested, all_files,
                   documents, abortCause>>
    /\ UNCHANGED appVars

\* queryApi.get_filings raises (network, quota): nothing catches it
SecFetchFilingsFails ==
    /\ pc = "sec_fetch"
    /\ NetCall("list")
    /\ pc' = "aborted"
    /\ abortCause' = "list_query"
    /\ UNCHANGED <<disk, web, runs, mem, filings, i, text, metadata, chunks,
                   contracts_added, chunks_added, ingested, all_files, documents>>
    /\ UNCHANGED appVars

FetchOutcomes == {"200", "non200", "exception", "parse_error"}

\* download_contract_text(filing) for a well-formed record: the text and whether
\* metadata is not None. A record without an EX-10 exhibit returns ("", None)
\* before any request; a non-200 status falls through to ("", None); an exception
\* of requests.get or of the parser is caught and gives ("", None).
download_contract_text(kind, outcome, bodyLen) ==
    IF kind = "nourl" THEN [text |-> NoText, metadata |-> FALSE]
    ELSE IF outcome = "200" THEN [text |-> SecNormalize(bodyLen), metadata |-> TRUE]
    ELSE [text |-> NoText, metadata |-> FALSE]

\* "if text and metadata"
SecAccepts(t, md) == TextLen(t) > 0 /\ md

SecMetadata(id) == [source |-> id, source_type |-> SEC_COLLECTION]

\* lines 158-160 on a record with an exhibit URL: one request for the body
SecDownload ==
    /\ pc = "sec_download"
    /\ filings[i].kind = "ok"
    /\ \E outcome \in FetchOutcomes :
          LET r == download_contract_text("ok", outcome, web[filings[i].id])
          IN  /\ text' = r.text
              /\ metadata' = r.metadata
    /\ NetCall("body")
    /\ pc' = "sec_store"
    /\ UNCHANGED <<disk, web, runs, mem, filings, i, chunks, contracts_added,
                   chunks_added, ingested, all_files, documents, abortCause>>
    /\ UNCHANGED appVars

\* lines 158-160 on a record without an EX-10 exhibit: no request is made
SecNoExhibit ==
    /\ pc = "sec_download"
    /\ filings[i].kind = "nourl"
    /\ LET r == download_contract_text("nourl", "200", web[filings[i].id])
       IN  /\ text' = r.text
           /\ metadata' = r.metadata
    /\ NoNetCall
    /\ pc' = "sec_store"
    /\ UNCHANGED <<disk, web, runs, mem, filings, i, chunks, contracts_added,
                   chunks_added, ingested, all_files, documents, abortCause>>
    /\ UNCHANGED appVars

\* line 158, filing.get('filedAt', '')[:10] on a null filedAt (and line 87, line
\* 75 on a null type) raise TypeError/AttributeError outside every try block:
\* the exception leaves ingest_sec
SecMalformedRecord ==
    /\ pc = "sec_download"
    /\ filings[i].kind = "malformed"
    /\ pc' = "aborted"
    /\ abortCause' = "filing"
    /\ NoNetCall
    /\ UNCHANGED <<disk, web, runs, mem, filings, i, text, metadata, chunks,
                   contracts_added, chunks_added, ingested, all_files, documents>>
    /\ UNCHANGED appVars

\* lines 162-167: split the document and add its chunks to the client
SecStore ==
    /\ pc = "sec_store"
    /\ IF SecAccepts(text, metadata)
          THEN LET cs == SplitDocument(text, SecMetadata(filings[i].id))
               IN  /\ chunks' = cs
                   /\ IF cs # <<>>
                         THEN /\ mem' = mem \o cs
                              /\ pc' = "sec_persist"
                         ELSE /\ mem' = mem
                              /\ pc' = "sec_sleep"
          ELSE /\ pc' = "sec_sleep"
               /\ UNCHANGED <<chunks, mem>>
    /\ NoNetCall
    /\ UNCHANGED <<disk, web, runs, filings, i, text, metadata, contracts_added,
                   chunks_added, ingested, all_files, documents, abortCause>>
    /\ UNCHANGED appVars

\* vectordb.add_documents raises (embedding or store failure)
SecStoreFails ==
    /\ pc = "sec_store"
    /\ SecAccepts(text, metadata)
    /\ pc' = "aborted"
    /\ abortCause' = "store"
    /\ NoNetCall
    /\ UNCHANGED <<disk, web, runs, mem, filings, i, text, metadata, chunks,
                   contracts_added, chunks_added, ingested, all_files, documents>>
    /\ UNCHANGED appVars

\* a bug this model is compared with: the persist directory rebuilt from the
\* client's collection alone
SecPersistWipesOthers ==
    /\ pc = "sec_persist"
    /\ disk' = [c \in Collections |-> IF c = SEC_COLLECTION THEN mem ELSE <<>>]
    /\ contracts_added' = contracts_added + 1
    /\ chunks_added' = chunks_added + Len(chunks)
    /\ ingested' = ingested \cup {filings[i].id}
    /\ pc' = "sec_sleep"
    /\ NoNetCall
    /\ UNCHANGED <<web, runs, mem, filings, i, text, metadata, chunks, all_files,
                   documents, abortCause>>
    /\ UNCHANGED appVars

\* a bug this model is compared with: chunks_added += 1
SecPersistCountsDocuments ==
    /\ pc = "sec_persist"
    /\ disk' = [disk EXCEPT ![SEC_COLLECTION] = mem]
    /\ contracts_added' = contracts_added + 1
    /\ chunks_added' = chunks_added + 1
    /\ ingested' = ingested \cup {filings[i].id}
    /\ pc' = "sec_sleep"
    /\ NoNetCall
    /\ UNCHANGED <<web, runs, mem, filings, i, text, metadata, chunks, all_files,
                   documents, abortCause>>
    /\ UNCHANGED appVars

\* lines 168-171: vectordb.persist() writes the client's collection to the
\* persist directory (until then the added chunks live in the client only), then
\* the counters
SecPersist ==
    /\ pc = "sec_persist"
    /\ disk' = [disk EXCEPT ![SEC_COLLECTION] = mem]
    /\ contracts_added' = contracts_added + 1
    /\ chunks_added' = chunks_added + Len(chunks)
    /\ ingested' = ingested \cup {filings[i].id}
    /\ pc' = "sec_sleep"
    /\ NoNetCall
    /\ UNCHANGED <<web, runs, mem, filings, i, text, metadata, chunks, all_files,
                   documents, abortCause>>
    /\ UNCHANGED appVars

\* a bug this model is compared with: the sleep placed inside "if chunks:"
SecSleepOnlyAfterAdd ==
    /\ pc = "sec_sleep"
    /\ sleptSince' = (sleptSince \/ (SecAccepts(text, metadata) /\ chunks # <<>>))
    /\ IF i < Len(filings)
          THEN /\ i' = i + 1
               /\ pc' = "sec_download"
          ELSE /\ i' = i
               /\ pc' = "done"
    /\ text' = NoText
    /\ metadata' = FALSE
    /\ chunks' = <<>>
    /\ UNCHANGED <<disk, web, runs, mem, filings, contracts_added, chunks_added,
                   ingested, all_files, documents, abortCause, prevCall, gap>>
    /\ UNCHANGED appVars

\* line 175, time.sleep(0.5), at the end of every iteration; after the last one
\* the summary is printed
SecSleep ==
    /\ pc = "sec_sleep"
    /\ sleptSince' = TRUE
    /\ IF i < Len(filings)
          THEN /\ i' = i + 1
               /\ pc' = "sec_download"
          ELSE /\ i' = i
               /\ pc' = "done"
    /\ text' = NoText
    /\ metadata' = FALSE
    /\ chunks' = <<>>
    /\ UNCHANGED <<disk, web, runs, mem, filings, contracts_added, chunks_added,
                   ingested, all_files, documents, abortCause, prevCall, gap>>
    /\ UNCHANGED appVars

----------------------------------------------------------------------------
(* ingest_stanford *)

\* "if len(text) < 100: continue"
StanfordSkips(n) == n < MIN_CHARS

\* the rule keywords of lines 81-89 that occur in the string s ("word in s"),
\* for the file names of this model
KeywordsIn(s) ==
    CASE s = "a.htm" -> {}
      [] s = "acquisition_loan.htm" -> {"acquisition", "loan"}
      [] s = "b.txt" -> {}
      [] s = "bylaws.htm" -> {}
      [] s = "consulting.txt" -> {"consulting"}
      [] s = "credit_lease.htm" -> {"lease", "credit"}
      [] s = "employment_agreement.htm" -> {"employ"}
      [] s = "loan_service.htm" -> {"loan", "service"}
      [] s = "merger_lease.txt" -> {"merger", "lease"}
      [] s = "professional_employ.htm" -> {"employ", "professional"}
      [] s = "release_note.txt" -> {"lease", "note"}
      [] s = "rental_services.htm" -> {"rental", "service"}
      [] s = "security_compensation.htm" -> {"compensation", "security"}
      [] s = "severance_merger.htm" -> {"severance", "merger"}
      [] OTHER -> {}

\* filename.lower()
Lower(name) ==
    IF name = "SEVERANCE_Merger.htm" THEN "severance_merger.htm" ELSE name

\* any(word in filename_lower for word in words)
AnyWordIn(words, s) == \E w \in words : w \in KeywordsIn(s)

EMPLOYMENT_WORDS == {"employ", "compensation", "severance"}
MERGER_WORDS == {"merger", "acquisition", "merger agreement"}
LEASE_WORDS == {"lease", "rental"}
SECURITY_WORDS == {"credit", "loan", "security", "note"}
SERVICES_WORDS == {"service", "consulting", "professional"}

\* a bug this model is compared with: the lease branch placed after the
\* financing branch
ContractTypeSecurityBeforeLease(filename) ==
    LET filename_lower == Lower(filename)
    IN  IF AnyWordIn(EMPLOYMENT_WORDS, filename_lower) THEN "Employment"
        ELSE IF AnyWordIn(MERGER_WORDS, filename_lower) THEN "M&A"
        ELSE IF AnyWordIn(SECURITY_WORDS, filename_lower) THEN "Security"
        ELSE IF AnyWordIn(LEASE_WORDS, filename_lower) THEN "Lease"
        ELSE IF AnyWordIn(SERVICES_WORDS, filename_lower) THEN "Services"
        ELSE "Other"

\* lines 77-90: the contract type, from the file name alone
ContractType(filename) ==
    LET filename_lower == Lower(filename)
    IN  IF AnyWordIn(EMPLOYMENT_WORDS, filename_lower) THEN "Employment"
        ELSE IF AnyWordIn(MERGER_WORDS, filename_lower) THEN "M&A"
        ELSE IF AnyWordIn(LEASE_WORDS, filename_lower) THEN "Lease"
        ELSE IF AnyWordIn(SECURITY_WORDS, filename_lower) THEN "Security"
        ELSE IF AnyWordIn(SERVICES_WORDS, filename_lower) THEN "Services"
        ELSE "Other"

StanfordDocument(f) ==
    [page_content |-> StanfordContent(f.chars),
     metadata |-> [source |-> f.path, type |-> ContractType(f.path),
                   source_type |-> STANFORD_COLLECTION, size_chars |-> f.chars]]

\* python ingest_stanford.py: load_stanford_contracts globs the folder and
\* returns [] when it is empty
StartStanford ==
    /\ pc = "idle"
    /\ runs < MaxRuns
    /\ runs' = runs + 1
    /\ \E fl \in FileLists :
          /\ all_files' = fl
          /\ IF fl = <<>>
                THEN pc' = "done" /\ i' = i
                ELSE pc' = "st_load" /\ i' = 1
    /\ documents' = <<>>
    /\ UNCHANGED <<disk, web, mem, filings, text, metadata, chunks,
                   contracts_added, chunks_added, ingested, abortCause, prevCall,
                   sleptSince, gap>>
    /\ UNCHANGED appVars

\* one iteration of the loop of load_stanford_contracts (lines 68-101); after the
\* last file, "if not contracts: return"
StLoadFile ==
    /\ pc = "st_load"
    /\ LET f == all_files[i]
           docs == IF StanfordSkips(f.chars) THEN documents
                   ELSE Append(documents, StanfordDocument(f))
       IN  /\ documents' = docs
           /\ IF i < Len(all_files)
                 THEN i' = i + 1 /\ pc' = "st_load"
                 ELSE i' = i /\ pc' = IF docs = <<>> THEN "done" ELSE "st_split"
    /\ UNCHANGED <<disk, web, runs, mem, filings, text, metadata, chunks,
                   contracts_added, chunks_added, ingested, all_files, abortCause,
                   prevCall, sleptSince, gap>>
    /\ UNCHANGED appVars

\* line 130: chunks = text_splitter.split_documents(contracts)
StSplit ==
    /\ pc = "st_split"
    /\ chunks' = SplitDocuments(documents)
    /\ pc' = "st_store"
    /\ UNCHANGED <<disk, web, runs, mem, filings, i, text, metadata,
                   contracts_added, chunks_added, ingested, all_files, documents,
                   abortCause, prevCall, sleptSince, gap>>
    /\ UNCHANGED appVars

\* lines 144-149: Chroma.from_documents opens collection stanford_mcc of the
\* persist directory and adds every chunk to it
StStore ==
    /\ pc = "st_store"
    /\ mem' = disk[STANFORD_COLLECTION] \o chunks
    /\ pc' = "st_persist"
    /\ UNCHANGED <<disk, web, runs, filings, i, text, metadata, chunks,
                   contracts_added, chunks_added, ingested, all_files, documents,
                   abortCause, prevCall, sleptSince, gap>>
    /\ UNCHANGED appVars

\* the embedding model or Chroma.from_documents raises
StStoreFails ==
    /\ pc = "st_store"
    /\ pc' = "aborted"
    /\ abortCause' = "store"
    /\ UNCHANGED <<disk, web, runs, mem, filings, i, text, metadata, chunks,
                   contracts_added, chunks_added, ingested, all_files, documents,
                   prevCall, sleptSince, gap>>
    /\ UNCHANGED appVars

\* line 153: vectordb.persist(), then the summary
StPersist ==
    /\ pc = "st_persist"
    /\ disk' = [disk EXCEPT ![STANFORD_COLLECTION] = mem]
    /\ pc' = "done"
    /\ UNCHANGED <<web, runs, mem, filings, i, text, metadata, chunks,
                   contracts_added, chunks_added, ingested, all_files, documents,
                   abortCause, prevCall, sleptSince, gap>>
    /\ UNCHANGED appVars

----------------------------------------------------------------------------
(* The process around a run *)

\* the script is interrupted or killed (KeyboardInterrupt, SIGKILL) at any point
Interrupt ==
    /\ Running
    /\ pc' = "aborted"
    /\ abortCause' = "interrupt"
    /\ UNCHANGED <<disk, web, runs, mem, filings, i, text, metadata, chunks,
                   contracts_added, chunks_added, ingested, all_files, documents,
                   prevCall, sleptSince, gap>>
    /\ UNCHANGED appVars

\* the process ends: only the persist directory survives
Exit ==
    /\ pc \in {"done", "aborted"}
    /\ pc' = "idle"
    /\ IngestLocalsReset
    /\ UNCHANGED <<disk, web, runs>>
    /\ UNCHANGED appVars

\* load_stanford_contracts over folders of named contracts (every text long
\* enough to be kept), to exercise the contract-type rules
ClassifyNames == {"employment_agreement.htm", "SEVERANCE_Merger.htm", "merger_lease.txt", "acquisition_loan.htm", "release_note.txt", "loan_service.htm",
                  "credit_lease.htm", "consulting.txt", "professional_employ.htm", "bylaws.htm", "security_compensation.htm", "rental_services.htm"}
ClassifyLists ==
    {[k \in 1..Len(names) |-> [path |-> names[k], chars |-> 120]] :
        names \in DistinctSeqs(ClassifyNames, MaxFiles) \ {<<>>}}

ClassifyInit ==
    /\ disk = [c \in Collections |-> <<>>]
    /\ web = [f \in FilingIds |-> 120]
    /\ runs = 1
    /\ pc = "st_load"
    /\ mem = <<>>
    /\ filings = <<>>
    /\ i = 1
    /\ text = NoText
    /\ metadata = FALSE
    /\ chunks = <<>>
    /\ contracts_added = 0
    /\ chunks_added = 0
    /\ ingested = {}
    /\ all_files \in ClassifyLists
    /\ documents = <<>>
    /\ abortCause = "none"
    /\ prevCall = "none"
    /\ sleptSince = FALSE
    /\ gap = NoGap
    /\ HF_TOKEN = PyNone
    /\ AppIdle

ClassifyNext ==
    \/ StLoadFile
    \/ StSplit

SpecClassify == ClassifyInit /\ [][ClassifyNext]_vars

Next ==
    \/ StartSec
    \/ SecFetchFilings
    \/ SecFetchFilingsFails
    \/ SecDownload
    \/ SecNoExhibit
    \/ SecMalformedRecord
    \/ SecStore
    \/ SecStoreFails
    \/ SecPersist
    \/ SecSleep
    \/ StartStanford
    \/ StLoadFile
    \/ StSplit
    \/ StStore
    \/ StStoreFails
    \/ StPersist
    \/ Interrupt
    \/ Exit

Spec == Init /\ [][Next]_vars

----------------------------------------------------------------------------
(* app.py: query_huggingface *)

\* what requests.post may give: an HTTP response (status, body) or an exception
Statuses == {200, 503, 500, 404}
\* body shapes: [{"generated_text": ...}], [{"other": ...}], [], {"error": ...},
\* ["text"], and a body that is not JSON
Bodies == {"generated", "no_key", "empty_list", "dict", "list_of_str", "not_json"}
Responses ==
    [kind : {"http"}, status : Statuses, body : Bodies]
    \cup [kind : {"exception"}, status : {0}, body : {"Timeout", "ConnectionError"}]

Answer(k, c, d) == [kind |-> k, code |-> c, detail |-> d]
Raise(exc) == Answer("raise", 0, exc)

DEMO_MESSAGE == Answer("demo", 0, "")

\* lines 403-406 on a 200 response: response.json() raises on a body that is not
\* JSON; result[0].get raises AttributeError when result[0] is no dict;
\* .get('generated_text', str(result)) falls back to str(result)
OnSuccess(body) ==
    CASE body = "not_json"    -> Raise("JSONDecodeError")
      [] body = "list_of_str" -> Raise("AttributeError")
      [] body = "generated"   -> Answer("completion", 200, body)
      [] OTHER                -> Answer("str_result", 200, body)

\* a bug this model is compared with: the "elif response.status_code == 503"
\* branch missing
TryBodyWithout503(resp) ==
    IF resp.kind = "exception" THEN Raise(resp.body)
    ELSE IF resp.status = 200 THEN OnSuccess(resp.body)
    ELSE Answer("api_error", resp.status, resp.body)

\* lines 400-411, the body of the try block
TryBody(resp) ==
    IF resp.kind = "exception" THEN Raise(resp.body)
    ELSE IF resp.status = 200 THEN OnSuccess(resp.body)
    ELSE IF resp.status = 503 THEN Answer("loading", 503, "")
    ELSE Answer("api_error", resp.status, resp.body)

\* a bug this model is compared with: "except requests.RequestException"
CatchesRequestsOnly(exc) == exc \in {"Timeout", "ConnectionError", "JSONDecodeError"}

\* line 413: "except Exception as e"
Catches(exc) == exc \in {"Timeout", "ConnectionError", "JSONDecodeError",
                         "AttributeError"}

\* a bug this model is compared with: "if HF_TOKEN is None"
TokenIsNone(tok) == tok = PyNone

\* line 371: "if not HF_TOKEN"
NotToken(tok) == Falsy(tok)

\* query_huggingface(prompt, context) when requests.post gives resp: the value
\* returned (kind "raise": the exception that leaves the function) and whether
\* the request was issued
query_huggingface(tok, resp) ==
    IF NotToken(tok) THEN [answer |-> DEMO_MESSAGE, requested |-> FALSE]
    ELSE LET r == TryBody(resp)
         IN  [answer |-> IF r.kind = "raise" /\ Catches(r.detail)
                            THEN Answer("error", 0, r.detail)
                            ELSE r,
              requested |-> TRUE]

----------------------------------------------------------------------------
(* app.py: search_contracts *)

\* a bug this model is compared with: only "if not n_clicks"
RejectsWithoutClick(n, q) == n = 0

\* line 429: "if not n_clicks or not query"
Rejects(n, q) == n = 0 \/ Falsy(q)

\* a bug this model is compared with: the SEC block not guarded by the selection
SelectedOrSec(tag, srcs) == tag \in srcs \/ tag = "sec"

\* lines 439 and 459: "stanford" in sources, "sec" in sources
Selected(tag, srcs) == tag \in srcs

ContextLen(tag) == IF tag = "stanford" THEN STANFORD_CONTEXT_LEN ELSE SEC_CONTEXT_LEN

\* lines 436-477: the context excerpts and the citation blocks, stanford first
Assemble(srcs) ==
    LET st == IF Selected("stanford", srcs) THEN <<"stanford">> ELSE <<>>
        sc == IF Selected("sec", srcs) THEN <<"sec">> ELSE <<>>
        tags == st \o sc
    IN  [context_parts |-> [k \in 1..Len(tags) |->
                               [source |-> tags[k], chars |-> ContextLen(tags[k])]],
         results |-> [k \in 1..Len(tags) |->
                         [source |-> tags[k],
                          tag |-> IF tags[k] = "stanford" THEN "Stanford MCC"
                                                         ELSE "SEC Live"]]]

\* line 480: "\n\n".join(context_parts), as its segments in order: the excerpts
\* and the separators between them
RECURSIVE Join(_)
Join(parts) ==
    IF parts = <<>> THEN <<>>
    ELSE IF Len(parts) = 1 THEN <<Head(parts)>>
    ELSE <<Head(parts), [source |-> "separator", chars |-> SEPARATOR_LEN]>>
         \o Join(Tail(parts))

\* a bug this model is compared with: {context} in place of {context[:2000]}
SliceNoLimit(segs, n) == segs

\* line 378: context[:n], as the characters kept of each segment
RECURSIVE Slice(_, _)
Slice(segs, n) ==
    IF segs = <<>> THEN <<>>
    ELSE LET h == Head(segs)
             kept == IF h.chars <= n THEN h.chars ELSE n
         IN  <<[source |-> h.source, chars |-> kept]>> \o Slice(Tail(segs), n - kept)

\* lines 375-383 with line 480: the context text of full_prompt
PromptContext(parts) == Slice(Join(parts), CONTEXT_LIMIT)

\* Dash calls the callback: at page load with n_clicks unset (None, as falsy as
\* 0), then on every click of the search button, with the input's value and the
\* checklist's value
Callback ==
    /\ apc \in {"idle", "returned", "failed"}
    /\ \E clicked \in BOOLEAN, q \in Queries, srcs \in SUBSET SourceValues :
          /\ clicked => n_clicks < MaxClicks
          /\ ~clicked => apc = "idle"
          /\ n_clicks' = IF clicked THEN n_clicks + 1 ELSE n_clicks
          /\ query' = q
          /\ sources' = srcs
    /\ apc' = "called"
    /\ context_parts' = <<>>
    /\ results' = <<>>
    /\ prompt_context' = <<>>
    /\ answer' = NoAnswer
    /\ output' = "none"
    /\ calls' = 0
    /\ response' = NoResponse
    /\ UNCHANGED HF_TOKEN
    /\ UNCHANGED ingestVars

\* lines 429-431
AppValidate ==
    /\ apc = "called"
    /\ IF Rejects(n_clicks, query)
          THEN /\ output' = "enter_a_query"
               /\ apc' = "returned"
          ELSE /\ output' = output
               /\ apc' = "assemble"
    /\ UNCHANGED <<HF_TOKEN, n_clicks, query, sources, context_parts, results,
                   prompt_context, answer, calls, response>>
    /\ UNCHANGED ingestVars

\* lines 436-477
AppAssemble ==
    /\ apc = "assemble"
    /\ context_parts' = Assemble(sources).context_parts
    /\ results' = Assemble(sources).results
    /\ apc' = "generate"
    /\ UNCHANGED <<HF_TOKEN, n_clicks, query, sources, prompt_context, answer,
                   output, calls, response>>
    /\ UNCHANGED ingestVars

\* lines 480-481: answer = query_huggingface(query, full_context), which puts
\* context[:2000] into full_prompt when it builds the request; an exception
\* leaving query_huggingface leaves the callback too
AppGenerate ==
    /\ apc = "generate"
    /\ \E resp \in Responses :
          LET r == query_huggingface(HF_TOKEN, resp)
          IN  /\ answer' = r.answer
              /\ calls' = IF r.requested THEN calls + 1 ELSE calls
              /\ response' = IF r.requested THEN resp ELSE NoResponse
              /\ prompt_context' = IF r.requested THEN PromptContext(context_parts)
                                                  ELSE <<>>
              /\ apc' = IF r.answer.kind = "raise" THEN "failed" ELSE "render"
    /\ UNCHANGED <<HF_TOKEN, n_clicks, query, sources, context_parts, results,
                   output>>
    /\ UNCHANGED ingestVars

\* lines 483-515: the answer section, replaced by the demo-mode section when
\* HF_TOKEN is not set, then the citations
AppRender ==
    /\ apc = "render"
    /\ output' = IF Falsy(HF_TOKEN) THEN "demo_mode" ELSE "analysis_result"
    /\ apc' = "returned"
    /\ UNCHANGED <<HF_TOKEN, n_clicks, query, sources, context_parts, results,
                   prompt_context, answer, calls, response>>
    /\ UNCHANGED ingestVars

AppNext ==
    \/ Callback
    \/ AppValidate
    \/ AppAssemble
    \/ AppGenerate
    \/ AppRender

SpecApp == AppInit /\ [][AppNext]_vars

----------------------------------------------------------------------------
(* query_huggingface(prompt, context) on contexts of any length: the excerpts of
   the selected sources, with lengths other than those of the two literals *)

ContextLens == {0, SEC_CONTEXT_LEN, STANFORD_CONTEXT_LEN, 1600, CONTEXT_LIMIT, 2600}

ContextsOf(srcs, lens) ==
    LET a == Assemble(srcs).context_parts
    IN  [k \in 1..Len(a) |-> [source |-> a[k].source, chars |-> lens[a[k].source]]]

PromptInit ==
    /\ IngestAtStart
    /\ web = [f \in FilingIds |-> 120]
    /\ HF_TOKEN \in Tokens
    /\ apc = "generate"
    /\ n_clicks = 1
    /\ query = "What is the notice period?"
    /\ \E srcs \in SUBSET SourceValues, lens \in [SourceValues -> ContextLens] :
          /\ sources = srcs
          /\ context_parts = ContextsOf(srcs, lens)
          /\ results = Assemble(srcs).results
    /\ prompt_context = <<>>
    /\ answer = NoAnswer
    /\ output = "none"
    /\ calls = 0
    /\ response = NoResponse

PromptNext ==
    \/ AppGenerate
    \/ AppRender

SpecPrompt == PromptInit /\ [][PromptNext]_vars

----------------------------------------------------------------------------
(* Claims C1..C5, checked under Spec *)

StoredOf(coll, doc) ==
    {k \in DOMAIN disk[coll] : disk[coll][k].metadata.source = doc}

\* C1: a document whose normalized text is shorter than 100 characters adds no
\* document and no chunk, in either ingestion path: no stored chunk and no counted
\* filing comes from a text of fewer than 100 characters.
C1_ShortDocumentsExcluded ==
    /\ \A k \in DOMAIN disk[STANFORD_COLLECTION] :
          disk[STANFORD_COLLECTION][k].metadata.size_chars >= MIN_CHARS
    /\ \A k \in DOMAIN disk[SEC_COLLECTION] :
          web[disk[SEC_COLLECTION][k].metadata.source] >= MIN_CHARS
    /\ \A f \in ingested : web[f] >= MIN_CHARS

\* C2: ingesting a filing id again with its body unchanged leaves the live
\* collection's chunk count where the first ingestion put it: a filing id is
\* stored with the chunks of its body once, or not at all.
C2_ReingestIdempotent ==
    \A f \in FilingIds :
        Cardinality(StoredOf(SEC_COLLECTION, f))
            \in {0, NumChunks(TextLen(SecNormalize(web[f])))}

\* C3: a failure while handling one filing (a malformed record among them) is
\* confined to that filing: no run of ingest_sec ends, short of its summary,
\* because of a filing.
C3_FilingFailureIsolated ==
    ~(pc = "aborted" /\ abortCause = "filing")

\* C4: persistence is per document in both runs: when a run has failed or was
\* interrupted, the chunks of every document it processed before that point are
\* in the persisted collection.
C4_ProcessedDocumentsPersisted ==
    pc = "aborted" =>
        /\ \A f \in ingested : StoredOf(SEC_COLLECTION, f) # {}
        /\ \A k \in DOMAIN documents :
              StoredOf(STANFORD_COLLECTION, documents[k].metadata.source) # {}

\* C5 as stated: between any two consecutive outbound calls of a live run, the
\* filing-list query included, the 0.5 s sleep has run.
C5_DelayBetweenAnyTwoCalls ==
    gap.from # "none" => gap.slept

\* C5 as amended: between any two consecutive filing body fetches of a live run
\* the 0.5 s sleep has run (a body fetch may follow the filing-list query
\* without it).
C5_DelayBetweenBodyFetches ==
    (gap.from = "body" /\ gap.to = "body") => gap.slept

\* a second body fetch issued right after a filing whose fetch failed
C5_Witness ==
    /\ pc = "sec_store"
    /\ i = 2
    /\ contracts_added = 0
    /\ filings[1].kind = "ok"
    /\ gap = [from |-> "body", to |-> "body", slept |-> TRUE]

----------------------------------------------------------------------------
(* Claims C13..C16, checked under Spec *)

\* C13: in both ingestion paths a normalized text longer than 50,000 characters
\* is cut to its first 50,000 characters with the truncation marker appended,
\* and a text of at most 50,000 characters is kept unchanged with no marker.
C13_TruncationWithMarker ==
    /\ (pc = "sec_store" /\ metadata) =>
          LET n == web[filings[i].id]
          IN  text = IF n > 50000 THEN [chars |-> 50000, marker |-> TRUE]
                                  ELSE [chars |-> n, marker |-> FALSE]
    /\ \A k \in DOMAIN documents :
          LET n == documents[k].metadata.size_chars
          IN  documents[k].page_content =
                  IF n > 50000 THEN [chars |-> 50000, marker |-> TRUE]
                               ELSE [chars |-> n, marker |-> FALSE]

SecPcs == {"sec_fetch", "sec_download", "sec_store", "sec_persist", "sec_sleep"}
StanfordPcs == {"st_load", "st_split", "st_store", "st_persist"}

\* C14: a step of ingest_sec leaves the historical collection as it was, a step of
\* ingest_stanford leaves the live collection as it was, and nothing else (a
\* failed or interrupted run, the process ending) changes either.
C14_CollectionsIndependent ==
    [][/\ pc \in SecPcs => disk'["stanford_mcc"] = disk["stanford_mcc"]
       /\ pc \in StanfordPcs => disk'["sec_live"] = disk["sec_live"]
       /\ pc \notin (SecPcs \cup StanfordPcs) => disk' = disk]_vars

\* ingest_sec has persisted a filing into a directory that already held the
\* historical collection
C14_Witness ==
    /\ pc = "sec_sleep"
    /\ ingested # {}
    /\ disk["sec_live"] # <<>>
    /\ disk["stanford_mcc"] # <<>>

\* C15: a live filing whose body normalizes to between 100 characters and the
\* chunk size adds exactly one chunk of one document to the live collection and
\* one to each counter, and nothing to the other collection; no other step of
\* the iteration changes the store or the counters.
C15_OneFilingOneChunk ==
    [][/\ (pc = "sec_persist" /\ pc' = "sec_sleep"
           /\ TextLen(text) >= 100 /\ TextLen(text) <= 1000) =>
              /\ Len(disk'["sec_live"]) = Len(disk["sec_live"]) + 1
              /\ disk'["sec_live"][Len(disk'["sec_live"])].metadata.source
                     = filings[i].id
              /\ SubSeq(disk'["sec_live"], 1, Len(disk["sec_live"])) = disk["sec_live"]
              /\ contracts_added' = contracts_added + 1
              /\ chunks_added' = chunks_added + 1
              /\ disk'["stanford_mcc"] = disk["stanford_mcc"]
       /\ pc \in {"sec_download", "sec_store", "sec_sleep"} =>
              /\ disk' = disk
              /\ contracts_added' = contracts_added
              /\ chunks_added' = chunks_added]_vars

\* a run of one filing of 120 characters has stored one chunk and counted 1 and 1
C15_Witness ==
    /\ pc = "sec_sleep"
    /\ Len(filings) = 1
    /\ text = [chars |-> 120, marker |-> FALSE]
    /\ Len(disk["sec_live"]) = 1
    /\ contracts_added = 1
    /\ chunks_added = 1
    /\ disk["stanford_mcc"] = <<>>

----------------------------------------------------------------------------
(* Claims C6..C10, checked under SpecApp *)

\* the callback got past validation: the button was clicked and the query is
\* not empty
Handled == n_clicks > 0 /\ query \notin {PyNone, ""} /\ apc # "called"

\* C6: with no HF_TOKEN (unset or empty), no request to the generation endpoint is
\* issued at any step, and every non-empty submitted query ends in the demo-mode
\* message: query_huggingface returns it and search_contracts renders the
\* demo-mode section.
C6_DemoModeWithoutNetwork ==
    HF_TOKEN \in {PyNone, ""} =>
        /\ calls = 0
        /\ response = NoResponse
        /\ (Handled /\ apc \in {"render", "returned"}) => answer = DEMO_MESSAGE
        /\ (Handled /\ apc = "returned") => output = "demo_mode"
        /\ Handled => apc \in {"assemble", "generate", "render", "returned"}

C6_Witness ==
    /\ HF_TOKEN = ""
    /\ apc = "returned"
    /\ query = "What is the notice period?"
    /\ output = "demo_mode"
    /\ answer = DEMO_MESSAGE
    /\ calls = 0

\* C7: query_huggingface is total: whatever the credential and whatever
\* requests.post gives, it returns an answer and no exception leaves it.
C7_SynthesisTotal ==
    /\ answer.kind # "raise"
    /\ apc # "failed"
    /\ (Handled /\ apc \in {"render", "returned"}) =>
          answer.kind \in {"demo", "completion", "str_result", "loading",
                           "api_error", "error"}

C7_Witness ==
    /\ apc = "render"
    /\ response = [kind |-> "http", status |-> 200, body |-> "list_of_str"]
    /\ answer = Answer("error", 0, "AttributeError")

\* C8 as stated: with a credential, the status code alone decides the outcome:
\* 200 the completion text, 503 the loading message, any other status the API
\* error with code and body, an exception the generic failure message; one
\* request per query.
C8_StatusDecidesOutcome ==
    response # NoResponse =>
        /\ calls = 1
        /\ (response.kind = "http" /\ response.status = 200) =>
              answer.kind = "completion"
        /\ (response.kind = "http" /\ response.status = 503) =>
              answer = Answer("loading", 503, "")
        /\ (response.kind = "http" /\ response.status \notin {200, 503}) =>
              answer = Answer("api_error", response.status, response.body)
        /\ response.kind = "exception" => answer = Answer("error", 0, response.body)

\* C8 as amended: a 200 gives the completion text when the body is a list whose
\* first element is an object holding generated_text, the stringified body for
\* other JSON (an empty list, a non-list, an object without generated_text), and
\* the generic failure message when the body is not JSON or its first element is
\* not an object; 503
\* gives the loading message and never the API error; any other status the API
\* error with that code and body; an exception the generic failure message; one
\* request per query.
C8_StatusAndBodyDecideOutcome ==
    response # NoResponse =>
        /\ calls = 1
        /\ HF_TOKEN = "hf_secret"
        /\ (response.kind = "http" /\ response.status = 200) =>
              /\ response.body = "generated" =>
                    answer = Answer("completion", 200, "generated")
              /\ response.body \in {"no_key", "empty_list", "dict"} =>
                    answer = Answer("str_result", 200, response.body)
              /\ response.body = "not_json" =>
                    answer = Answer("error", 0, "JSONDecodeError")
              /\ response.body = "list_of_str" =>
                    answer = Answer("error", 0, "AttributeError")
        /\ (response.kind = "http" /\ response.status = 503) =>
              answer = Answer("loading", 503, "")
        /\ (response.kind = "http" /\ response.status \notin {200, 503}) =>
              answer = Answer("api_error", response.status, response.body)
        /\ response.kind = "exception" => answer = Answer("error", 0, response.body)

C8_Witness ==
    /\ apc = "returned"
    /\ response.kind = "http"
    /\ response.status = 503
    /\ answer.kind = "loading"
    /\ calls = 1
    /\ output = "analysis_result"

\* C9: the citations and the context hold entries of the selected source types
\* only.
C9_OnlySelectedSources ==
    /\ \A k \in DOMAIN results :
          /\ results[k].source \in sources
          /\ results[k].tag = "SEC Live" => "sec" \in sources
          /\ results[k].tag = "Stanford MCC" => "stanford" \in sources
    /\ \A k \in DOMAIN context_parts : context_parts[k].source \in sources

C9_Witness ==
    /\ apc = "returned"
    /\ sources = {"stanford"}
    /\ Len(results) = 1
    /\ results[1].tag = "Stanford MCC"
    /\ Len(context_parts) = 1

\* C10: an empty query is rejected at the first step: the callback returns the
\* "enter a query" response with no context assembled, no citation and no call
\* of the generation capability, whatever the sources and the credential.
C10_EmptyQueryRejected ==
    (query \in {PyNone, ""} /\ apc \notin {"idle", "called"}) =>
        /\ apc = "returned"
        /\ output = "enter_a_query"
        /\ context_parts = <<>>
        /\ results = <<>>
        /\ answer = NoAnswer
        /\ calls = 0
        /\ response = NoResponse

C10_Witness ==
    /\ apc = "returned"
    /\ query = ""
    /\ n_clicks > 0
    /\ sources = SourceValues
    /\ HF_TOKEN = "hf_secret"
    /\ output = "enter_a_query"

----------------------------------------------------------------------------
(* Claim C11, checked under SpecPrompt *)

RECURSIVE TotalChars(_)
TotalChars(segs) ==
    IF segs = <<>> THEN 0 ELSE Head(segs).chars + TotalChars(Tail(segs))

\* C11: the context text placed in the generation prompt never exceeds 2000
\* characters, and it is a prefix of the merged context: every segment before a
\* cut is kept whole and nothing after a cut is kept, so what is truncated or
\* dropped comes after everything that is kept.
C11_ContextWithinBudget ==
    calls > 0 =>
        LET full == Join(context_parts)
            kept == prompt_context
        IN  /\ TotalChars(kept) <= CONTEXT_LIMIT
            /\ TotalChars(kept) = IF TotalChars(full) <= CONTEXT_LIMIT
                                     THEN TotalChars(full) ELSE CONTEXT_LIMIT
            /\ Len(kept) = Len(full)
            /\ \A k \in DOMAIN kept :
                  /\ kept[k].source = full[k].source
                  /\ kept[k].chars <= full[k].chars
                  /\ kept[k].chars < full[k].chars =>
                        \A j \in DOMAIN kept : j > k => kept[j].chars = 0

\* both sources selected, 1600 + 2 + 2600 characters merged: the second excerpt
\* is cut to 398 characters
C11_Witness ==
    /\ apc = "render"
    /\ calls = 1
    /\ Len(context_parts) = 2
    /\ context_parts[1].chars = 1600
    /\ context_parts[2].chars = 2600
    /\ prompt_context[1].chars = 1600
    /\ prompt_context[3] = [source |-> "sec", chars |-> 398]

----------------------------------------------------------------------------
(* Claim C12, checked under SpecClassify *)

HasWord(name, words) == \E w \in words : w \in KeywordsIn(Lower(name))

\* C12: the contract type is first-match-wins over the ordered rules employment,
\* M&A, lease, financing, services, default "Other", and is decided by the
\* document's own file name, whatever was classified before it.
C12_FirstMatchWins ==
    \A k \in DOMAIN documents :
        LET n == documents[k].metadata.source
            t == documents[k].metadata.type
            e == HasWord(n, {"employ", "compensation", "severance"})
            m == HasWord(n, {"merger", "acquisition", "merger agreement"})
            l == HasWord(n, {"lease", "rental"})
            f == HasWord(n, {"credit", "loan", "security", "note"})
            s == HasWord(n, {"service", "consulting", "professional"})
        IN  /\ e => t = "Employment"
            /\ (~e /\ m) => t = "M&A"
            /\ (~e /\ ~m /\ l) => t = "Lease"
            /\ (~e /\ ~m /\ ~l /\ f) => t = "Security"
            /\ (~e /\ ~m /\ ~l /\ ~f /\ s) => t = "Services"
            /\ (~e /\ ~m /\ ~l /\ ~f /\ ~s) => t = "Other"

\* a name matching the lease and the financing rules is Lease, after a name
\* matching the financing and the services rules was classified Security
C12_Witness ==
    /\ Len(documents) = 2
    /\ documents[1].metadata.source = "loan_service.htm"
    /\ documents[1].metadata.type = "Security"
    /\ documents[2].metadata.source = "credit_lease.htm"
    /\ documents[2].metadata.type = "Lease"

====
